---- MODULE Spec2Model ----
(***************************************************************************)
(* A model of scraper.py: the field extractor, the record extractor, the  *)
(* three traversal strategies, the schema projector and the run           *)
(* orchestrator (main).  The page driver (Playwright page / element       *)
(* handles) is the environment: its answers are nondeterministic.         *)
(*                                                                         *)
(* Python values are represented as follows.                               *)
(*   None            the empty tuple <<>>; a present value v is <<v>>      *)
(*   str (text)      a sequence of one-character strings                   *)
(*   str (selector, attribute name, mode, key)  a TLA+ string              *)
(*   dict (config)   a record; an absent key is absent from its DOMAIN     *)
(*   dict (record)   a sequence of <<key, value>> pairs with distinct      *)
(*                   keys, in insertion order                              *)
(*   a call's outcome  [exc |-> "none", value |-> v] when it returns v,    *)
(*                     [exc |-> e, value |-> None] when it raises e        *)
(***************************************************************************)
EXTENDS Integers, Sequences, FiniteSets, TLC

(***************************************************************************)
(* Bounds of the model.                                                    *)
(***************************************************************************)
MaxUrls == 2
MaxScrolls == 6
MaxStop == 3
MaxPages == 3
MaxRecs == 2
MaxCols == 2
MaxText == 3
MaxItems == 3

(***************************************************************************)
(* Python helpers.                                                         *)
(***************************************************************************)
None == <<>>
Some(v) == <<v>>
Ret(v) == [exc |-> "none", value |-> v]
Raise(e) == [exc |-> e, value |-> None]

\* dict.get(k, default) on a configuration dict.
Get(d, k, default) == IF k \in DOMAIN d THEN d[k] ELSE default

\* {} as a configuration dict.
EmptyDict == <<>>

\* "not d.get(k)" for a string-valued key: absent (None) or empty.
Falsy(d, k) == k \notin DOMAIN d \/ d[k] = ""

\* An insertion-ordered dict as a sequence of <<key, value>> pairs.
DictKeys(d) == [i \in 1..Len(d) |-> d[i][1]]
DictHas(d, k) == \E i \in 1..Len(d) : d[i][1] = k
DictIndex(d, k) == CHOOSE i \in 1..Len(d) : d[i][1] = k
\* record.get(k): the value, or None when the key is absent.
DictGet(d, k) == IF DictHas(d, k) THEN d[DictIndex(d, k)][2] ELSE None
\* d[k] = v: an existing key keeps its position, a new key goes last.
DictSet(d, k, v) ==
    IF DictHas(d, k)
    THEN [d EXCEPT ![DictIndex(d, k)] = <<k, v>>]
    ELSE Append(d, <<k, v>>)

(***************************************************************************)
(* Text.                                                                   *)
(***************************************************************************)
Whitespace == {" ", "\t", "\n"}
MAILTO == <<"m", "a", "i", "l", "t", "o", ":">>

\* str.split(): the maximal runs of non-whitespace characters, in order.
\* cur is the word being read, words the words already finished.
RECURSIVE SplitFrom(_, _, _, _)
SplitFrom(s, i, cur, words) ==
    IF i > Len(s)
    THEN IF cur = <<>> THEN words ELSE Append(words, cur)
    ELSE IF s[i] \in Whitespace
         THEN SplitFrom(s, i + 1, <<>>,
                        IF cur = <<>> THEN words ELSE Append(words, cur))
         ELSE SplitFrom(s, i + 1, Append(cur, s[i]), words)
Split(s) == SplitFrom(s, 1, <<>>, <<>>)

\* " ".join(words)
RECURSIVE Join(_)
Join(words) ==
    IF words = <<>> THEN <<>>
    ELSE IF Len(words) = 1 THEN words[1]
    ELSE words[1] \o <<" ">> \o Join(Tail(words))

\* str.startswith(prefix)
StartsWith(s, prefix) ==
    Len(s) >= Len(prefix) /\ SubSeq(s, 1, Len(prefix)) = prefix

\* str.replace(old, new, 1): the leftmost occurrence of old, if any.
RECURSIVE ReplaceFirstFrom(_, _, _, _)
ReplaceFirstFrom(s, old, new, i) ==
    IF i + Len(old) - 1 > Len(s) THEN s
    ELSE IF SubSeq(s, i, i + Len(old) - 1) = old
         THEN SubSeq(s, 1, i - 1) \o new \o SubSeq(s, i + Len(old), Len(s))
         ELSE ReplaceFirstFrom(s, old, new, i + 1)
\* str.replace(old, new): every occurrence of old, left to right.
RECURSIVE ReplaceAllFrom(_, _, _, _)
ReplaceAllFrom(s, old, new, i) ==
    IF i + Len(old) - 1 > Len(s) THEN SubSeq(s, i, Len(s))
    ELSE IF SubSeq(s, i, i + Len(old) - 1) = old
         THEN new \o ReplaceAllFrom(s, old, new, i + Len(old))
         ELSE <<s[i]>> \o ReplaceAllFrom(s, old, new, i + 1)
ReplaceFirst_all(s, old, new) == ReplaceAllFrom(s, old, new, 1)
ReplaceFirst(s, old, new) == ReplaceFirstFrom(s, old, new, 1)

\* The cleaned text returned as it is, empty or not.
normalize_text_keep_empty(value) ==
    IF value = None THEN None ELSE Some(Join(Split(value[1])))
normalize_text(value) ==
    IF value = None THEN None
    ELSE LET cleaned == Join(Split(value[1]))
         IN  IF cleaned # <<>> THEN Some(cleaned) ELSE None

(***************************************************************************)
(* Field extractor.  An element handle is a function from selectors to    *)
(* the outcome of element.query_selector(selector): Ret(None) when        *)
(* nothing matches, Ret(Some(target)) for the first match, Raise(..) when *)
(* the driver rejects the selector.  A target is                          *)
(* [text |-> inner text, attrs |-> record of its attributes].             *)
(***************************************************************************)
query_selector(element, selector) == element[selector]
inner_text(target) == Some(target.text)
\* str(value) of a missing attribute: the text "None" for None.
get_attribute_str(target, attr) ==
    IF attr \in DOMAIN target.attrs THEN Some(target.attrs[attr])
    ELSE Some(<<"N", "o", "n", "e">>)
get_attribute(target, attr) ==
    IF attr \in DOMAIN target.attrs THEN Some(target.attrs[attr]) ELSE None

\* A field_config is [kind |-> "str", selector |-> s] for a bare selector
\* string, or [kind |-> "dict", cfg |-> d] with optional keys selector, attr.
extract_value(element, field_config) ==
    IF field_config.kind = "str"
    THEN LET q == query_selector(element, field_config.selector)
         IN  IF q.exc # "none" THEN q
             ELSE IF q.value = None THEN Ret(None)
             ELSE Ret(normalize_text(inner_text(q.value[1])))
    ELSE LET cfg == field_config.cfg
         IN  IF Falsy(cfg, "selector") THEN Ret(None)
             ELSE LET q == query_selector(element, cfg.selector)
                  IN  IF q.exc # "none" THEN q
                      ELSE IF q.value = None THEN Ret(None)
                      ELSE IF ~Falsy(cfg, "attr")
                      THEN LET raw == get_attribute(q.value[1], cfg.attr)
                               value ==
                                   IF raw # None /\ raw[1] # <<>>
                                      /\ cfg.attr = "href"
                                      /\ StartsWith(raw[1], MAILTO)
                                   THEN Some(ReplaceFirst(raw[1], MAILTO, <<>>))
                                   ELSE raw
                           IN  Ret(normalize_text(value))
                      ELSE Ret(normalize_text(inner_text(q.value[1])))

(***************************************************************************)
(* Record extractor.  dom is the sequence of element handles that         *)
(* page.query_selector_all(item_selector) returns for the current page    *)
(* state, in document order.                                               *)
(***************************************************************************)
\* The inner loop: one record from one element; fields is an ordered dict
\* of field_name -> field_config.  A raising extract_value propagates.
RECURSIVE BuildRecord(_, _, _, _)
BuildRecord(element, fields, i, record) ==
    IF i > Len(fields) THEN Ret(record)
    ELSE LET v == extract_value(element, fields[i][2])
         IN  IF v.exc # "none" THEN v
             ELSE BuildRecord(element, fields, i + 1,
                              DictSet(record, fields[i][1], v.value))

RECURSIVE BuildItems(_, _, _, _)
BuildItems(dom, fields, i, items) ==
    IF i > Len(dom) THEN Ret(items)
    ELSE LET r == BuildRecord(dom[i], fields, 1, <<>>)
         IN  IF r.exc # "none" THEN r
             ELSE BuildItems(dom, fields, i + 1, Append(items, r.value))

\* The records that hold at least one value that is not None.
extract_items_filtered(dom, config) ==
    IF "extraction" \notin DOMAIN config THEN Raise("KeyError")
    ELSE IF "item_selector" \notin DOMAIN config.extraction
    THEN Raise("KeyError")
    ELSE IF "fields" \notin DOMAIN config.extraction THEN Raise("KeyError")
    ELSE LET r == BuildItems(dom, config.extraction.fields, 1, <<>>)
             Kept(record) == \E k \in 1..Len(record) : record[k][2] # None
         IN  IF r.exc # "none" THEN r ELSE Ret(SelectSeq(r.value, Kept))
extract_items(dom, config) ==
    IF "extraction" \notin DOMAIN config THEN Raise("KeyError")
    ELSE IF "item_selector" \notin DOMAIN config.extraction
    THEN Raise("KeyError")
    ELSE IF "fields" \notin DOMAIN config.extraction THEN Raise("KeyError")
    ELSE BuildItems(dom, config.extraction.fields, 1, <<>>)

(***************************************************************************)
(* Schema projector.                                                       *)
(***************************************************************************)
\* {col: record.get(col) for col in columns}
RECURSIVE ProjectRecord(_, _, _, _)
ProjectRecord(record, columns, i, out) ==
    IF i > Len(columns) THEN out
    ELSE ProjectRecord(record, columns, i + 1,
                       DictSet(out, columns[i], DictGet(record, columns[i])))

\* The projection starting from a copy of the record.
ensure_columns_update(records, columns) ==
    [i \in 1..Len(records) |->
        ProjectRecord(records[i], columns, 1, records[i])]
\* The projected records in reverse order (insert(0, ..) for append).
ensure_columns_prepend(records, columns) ==
    [i \in 1..Len(records) |->
        ProjectRecord(records[Len(records) + 1 - i], columns, 1, <<>>)]
ensure_columns(records, columns) ==
    [i \in 1..Len(records) |-> ProjectRecord(records[i], columns, 1, <<>>)]

(***************************************************************************)
(* Configurations (the dict yaml.safe_load returns) and the page driver.  *)
(***************************************************************************)
DEFAULT_COLUMNS ==
    <<"company_name", "address", "email", "website", "phone", "country",
      "field">>
DEFAULT_MAX_SCROLLS == 50
DEFAULT_STOP_AFTER_UNCHANGED == 3
DEFAULT_MAX_PAGES == 50
DEFAULT_START_PAGE == 1

\* str(n) for a natural number, as a sequence of digit characters.
Digit == <<"0", "1", "2", "3", "4", "5", "6", "7", "8", "9">>
RECURSIVE DecStr(_)
DecStr(n) == IF n < 10 THEN <<Digit[n + 1]>>
             ELSE DecStr(n \div 10) \o <<Digit[(n % 10) + 1]>>

\* url_template.format(page=n): a template is a sequence of literal parts
\* and "{page}" placeholders; the URL is the sequence of its pieces.
RECURSIVE FormatFrom(_, _, _)
FormatFrom(template, n, i) ==
    IF i > Len(template) THEN <<>>
    ELSE (IF template[i] = "{page}" THEN DecStr(n) ELSE <<template[i]>>)
         \o FormatFrom(template, n, i + 1)
\* The template used as the URL, its placeholders left in place.
Format_literal(template, n) == template
Format(template, n) == FormatFrom(template, n, 1)

Template == <<"list?p=", "{page}">>
Heights == {0, 100, 200}

RECURSIVE SeqsUpTo(_, _)
SeqsUpTo(S, n) ==
    IF n = 0 THEN {<<>>}
    ELSE LET shorter == SeqsUpTo(S, n - 1)
         IN  shorter \cup {Append(q, x) : q \in shorter, x \in S}

\* What the page driver answers to query_selector("").
EmptySelectorOutcomes == {Raise("Error"), Ret(None)}

Selectors == {"", "h1", "a.mail"}
\* What tells one page state from another: its URL and the number of
\* clicks made on it since it was loaded.
PageId(p) == p.url \o <<"#">> \o DecStr(p.clicks)
\* On page state p: <h1> PageId </h1> <a class="mail" href="mailto:i@a">
ElemAcme(p) ==
    [s \in Selectors |->
        IF s = "h1"
        THEN Ret(Some([text |-> <<" ">> \o PageId(p) \o <<" ">>,
                       attrs |-> [class |-> <<>>]]))
        ELSE IF s = "a.mail"
        THEN Ret(Some([text |-> <<>>,
                       attrs |-> [class |-> <<"m", "a", "i", "l">>,
                                  href |-> MAILTO \o <<"i", "@", "a">>]]))
        ELSE Raise("Error")]
\* On page state p: <h1>PageId</h1> and no a.mail
ElemBare(p) ==
    [s \in Selectors |->
        IF s = "h1"
        THEN Ret(Some([text |-> PageId(p), attrs |-> [class |-> <<>>]]))
        ELSE IF s = "a.mail" THEN Ret(None)
        ELSE Raise("Error")]
\* What query_selector_all(item_selector) can return on page state p: no
\* element, or the two items of that page.
Doms(p) == {<<>>, <<ElemAcme(p), ElemBare(p)>>}

Fields ==
    << <<"name", [kind |-> "str", selector |-> "h1"]>>,
       <<"email", [kind |-> "dict",
                   cfg |-> [selector |-> "a.mail", attr |-> "href"]]>> >>
Extractions ==
    {[item_selector |-> ".item", fields |-> Fields], [fields |-> Fields]}
Columns == <<"name", "email", "phone">>

ScrollConfigs ==
    [max_scrolls : 0..MaxScrolls, stop_after_unchanged : 0..MaxStop]
    \cup [max_scrolls : 0..MaxScrolls]
ClickConfigs ==
    [max_pages : 0..MaxPages, next_button_selector : {"", "a.next"}]
    \cup [max_pages : 0..MaxPages]
    \cup [max_pages : 0..MaxPages, url_template : {<<>>}]
UrlConfigs ==
    [max_pages : 0..MaxPages, url_template : {Template}, start_page : 1..2]
    \cup [max_pages : 0..MaxPages, url_template : {Template}]
\* The lists of up to MaxUrls start URLs a, b, a, ...
StartUrlLists ==
    {[i \in 1..n |-> IF i % 2 = 1 THEN <<"a">> ELSE <<"b">>] :
        n \in 0..MaxUrls}

\* The scroll section is read in infinite_scroll mode only and the
\* pagination section in pagination mode only.
\* Without mode and columns (the defaults apply) a short scroll suffices.
Configs ==
    [start_urls : StartUrlLists, extraction : Extractions,
     scroll : [max_scrolls : 0..2]]
    \cup [start_urls : StartUrlLists, extraction : Extractions,
          mode : {"infinite_scroll"}, scroll : ScrollConfigs,
          columns : {Columns}]
    \cup [start_urls : StartUrlLists, extraction : Extractions,
          mode : {"pagination"}, pagination : ClickConfigs \cup UrlConfigs,
          columns : {Columns}]
    \cup [start_urls : StartUrlLists, extraction : Extractions,
          mode : {"list"}]
    \cup [extraction : Extractions, mode : {"list"}]

(***************************************************************************)
(* State of a run of main().                                               *)
(***************************************************************************)
VARIABLES
    config,          \* the loaded configuration
    pc,              \* where main (or the traversal it called) stands
    exc,             \* the exception that ended the run, "none" otherwise
    url_idx,         \* position of the for loop over start_urls
    page,            \* page driver: [url, clicks] of the loaded document
    scrolls,         \* scroll_page: iterations of the for loop done
    unchanged,       \* scroll_page: unchanged
    previous_height, \* scroll_page: previous_height
    pages_done,      \* paginate: iterations of the for loop done
    page_number,     \* paginate_by_url: page_number
    results,         \* paginate, paginate_by_url: results
    records,         \* main: records of the current start URL
    all_records,     \* main: all_records
    returned,        \* history: the records each finished traversal returned
    navs,            \* history: every URL page.goto was called with
    trace,           \* history: driver calls and extractions of the
                     \* start URL being processed, from its goto on
    projections,     \* history: number of ensure_columns calls of main
    sink,            \* the tables written by to_excel, in order
    unit             \* a function called on its own: arguments and result

mainvars ==
    <<config, pc, exc, url_idx, page, scrolls, unchanged, previous_height,
      pages_done, page_number, results, records, all_records, returned,
      navs, trace, projections, sink>>
vars == <<mainvars, unit>>

NoUnit == [fn |-> "none"]
NoPage == [url |-> <<>>, clicks |-> 0]

start_urls == Get(config, "start_urls", <<>>)
\* The mode read with pagination as the default.
mode_default_pagination == Get(config, "mode", "pagination")
mode == Get(config, "mode", "infinite_scroll")
columns == Get(config, "columns", DEFAULT_COLUMNS)
scroll_config == Get(config, "scroll", EmptyDict)
pagination_config == Get(config, "pagination", EmptyDict)
max_scrolls == Get(scroll_config, "max_scrolls", DEFAULT_MAX_SCROLLS)
stop_after_unchanged ==
    Get(scroll_config, "stop_after_unchanged", DEFAULT_STOP_AFTER_UNCHANGED)
max_pages == Get(pagination_config, "max_pages", DEFAULT_MAX_PAGES)
start_page == Get(pagination_config, "start_page", DEFAULT_START_PAGE)
\* None and "" are both falsy and both the empty sequence here.
url_template == Get(pagination_config, "url_template", <<>>)

Ev(op) == [op |-> op]
GotoEv(url, ok) == [op |-> "goto", url |-> url, ok |-> ok]
MeasureEv(h) == [op |-> "measure", height |-> h]
ExtractEv(p) == [op |-> "extract", page |-> p]
\* page.query_selector(next_selector) and whether it found the button
QueryNextEv(found) == [op |-> "query_next", found |-> found]

Init ==
    /\ config \in Configs
    /\ pc = "for_url"
    /\ exc = "none"
    /\ url_idx = 1
    /\ page = NoPage
    /\ scrolls = 0
    /\ unchanged = 0
    /\ previous_height = 0
    /\ pages_done = 0
    /\ page_number = 0
    /\ results = <<>>
    /\ records = <<>>
    /\ all_records = <<>>
    /\ returned = <<>>
    /\ navs = <<>>
    /\ trace = <<>>
    /\ projections = 0
    /\ sink = <<>>
    /\ unit = NoUnit

(***************************************************************************)
(* main: the loop over start_urls.                                         *)
(***************************************************************************)
\* Nothing in main catches an exception: it ends the run.
Fail(e) == pc' = "raised" /\ exc' = e

\* page.goto raises: neither main nor paginate_by_url has a try around it.
NavigationFailure_retried == pc' = pc /\ exc' = exc
NavigationFailure == Fail("NavigationError")

\* list.extend
Extend_replace(list, more) == more
Extend(list, more) == list \o more

\* for url in start_urls: page.goto(url, wait_until="networkidle")
MainGoto ==
    /\ pc = "for_url"
    /\ url_idx <= Len(start_urls)
    /\ LET url == start_urls[url_idx]
       IN  /\ navs' = Append(navs, url)
           /\ \E ok \in BOOLEAN :
                /\ trace' = <<GotoEv(url, ok)>>
                /\ IF ok
                   THEN /\ page' = [url |-> url, clicks |-> 0]
                        /\ pc' = "dispatch"
                        /\ exc' = exc
                   ELSE /\ page' = page
                        /\ NavigationFailure
    /\ UNCHANGED <<config, url_idx, scrolls, unchanged, previous_height,
                   pages_done, page_number, results, records, all_records,
                   returned, projections, sink, unit>>

\* mode = config.get("mode", ...) and the if / elif / else on it, up to
\* the first statement of the traversal it calls.
MainDispatch ==
    /\ pc = "dispatch"
    /\ IF mode = "infinite_scroll"
       THEN /\ pc' = "scroll_page"
            /\ scrolls' = 0
            /\ unchanged' = 0
            /\ previous_height' = 0
            /\ UNCHANGED <<exc, pages_done, page_number, results>>
       ELSE IF mode = "pagination"
       THEN IF url_template # <<>>
            THEN /\ pc' = "paginate_by_url"
                 /\ UNCHANGED <<exc, scrolls, unchanged, previous_height,
                                pages_done, page_number, results>>
            ELSE /\ pc' = "paginate"
                 /\ pages_done' = 0
                 /\ results' = <<>>
                 /\ UNCHANGED <<exc, scrolls, unchanged, previous_height,
                                page_number>>
       ELSE /\ Fail("ValueError")
            /\ UNCHANGED <<scrolls, unchanged, previous_height, pages_done,
                           page_number, results>>
    /\ UNCHANGED <<config, url_idx, page, records, all_records, returned,
                   navs, trace, projections, sink, unit>>

(***************************************************************************)
(* scroll_page                                                             *)
(***************************************************************************)
\* unchanged += 1 on an equal height, and no reset on a different one.
NextUnchanged_noreset(current_height, previous, count) ==
    IF current_height = previous THEN count + 1 ELSE count
\* if current_height == previous_height: unchanged += 1 else: unchanged = 0
NextUnchanged(current_height, previous, count) ==
    IF current_height = previous THEN count + 1 ELSE 0

\* if unchanged >= stop_after_unchanged: break
ScrollBreak_early(count, stop) == count >= stop - 1
ScrollBreak(count, stop) == count >= stop

\* A call's locals end with the call.
ScrollFrameGone == scrolls' = 0 /\ unchanged' = 0 /\ previous_height' = 0

\* One iteration of the for loop: scroll, wait, measure, compare, break.
ScrollIter ==
    /\ pc = "scroll_page"
    /\ scrolls < max_scrolls
    /\ \E current_height \in Heights :
         LET u == NextUnchanged(current_height, previous_height, unchanged)
         IN  /\ trace' = trace \o <<Ev("scroll"), Ev("wait"),
                                    MeasureEv(current_height)>>
             /\ IF ScrollBreak(u, stop_after_unchanged)
                THEN /\ pc' = "scroll_extract"
                     /\ ScrollFrameGone
                ELSE /\ pc' = "scroll_page"
                     /\ unchanged' = u
                     /\ previous_height' = current_height
                     /\ scrolls' = scrolls + 1
    /\ UNCHANGED <<config, exc, url_idx, page, pages_done, page_number,
                   results, records, all_records, returned, navs,
                   projections, sink, unit>>

\* range(max_scrolls) is exhausted: scroll_page returns.
ScrollExhausted ==
    /\ pc = "scroll_page"
    /\ scrolls >= max_scrolls
    /\ pc' = "scroll_extract"
    /\ ScrollFrameGone
    /\ UNCHANGED <<config, exc, url_idx, page, pages_done, page_number,
                   results, records, all_records, returned, navs, trace,
                   projections, sink, unit>>

\* The extraction as a step of the scroll loop.
ScrollExtract_inloop ==
    /\ pc = "scroll_extract"
    /\ trace' = Append(trace, ExtractEv(page))
    /\ \E dom \in Doms(page) :
         LET r == extract_items(dom, config)
         IN  IF r.exc # "none"
             THEN Fail(r.exc) /\ records' = records
             ELSE pc' = "scroll_page" /\ exc' = exc /\ records' = r.value
    /\ UNCHANGED <<config, url_idx, page, scrolls, unchanged,
                   previous_height, pages_done, page_number, results,
                   all_records, returned, navs, projections, sink, unit>>

\* records = extract_items(page, config) after scroll_page
ScrollExtract ==
    /\ pc = "scroll_extract"
    /\ trace' = Append(trace, ExtractEv(page))
    /\ \E dom \in Doms(page) :
         LET r == extract_items(dom, config)
         IN  IF r.exc # "none"
             THEN Fail(r.exc) /\ records' = records
             ELSE pc' = "accumulate" /\ exc' = exc /\ records' = r.value
    /\ UNCHANGED <<config, url_idx, page, scrolls, unchanged,
                   previous_height, pages_done, page_number, results,
                   all_records, returned, navs, projections, sink, unit>>

(***************************************************************************)
(* paginate                                                                *)
(***************************************************************************)
\* if not next_selector: break
NoNextSelector_absent(cfg) == "next_button_selector" \notin DOMAIN cfg
NoNextSelector(cfg) == Falsy(cfg, "next_button_selector")

PaginateFrameGone == pages_done' = 0 /\ results' = <<>>

\* for _ in range(max_pages): another iteration after done of them?
InRange_inclusive(done, limit) == done <= limit
InRange(done, limit) == done < limit

\* next_button.click(); page.wait_for_timeout(...)
ClickNext_nowait == <<Ev("click")>>
ClickNext == <<Ev("click"), Ev("wait")>>

\* One iteration of the for loop: extract, look for the next button,
\* click it and wait.  has_next is the driver's answer to query_selector.
PaginateIter ==
    /\ pc = "paginate"
    /\ InRange(pages_done, max_pages)
    /\ \E dom \in Doms(page), has_next \in BOOLEAN :
         LET r == extract_items(dom, config)
         IN  IF r.exc # "none"
             THEN /\ Fail(r.exc)
                  /\ trace' = Append(trace, ExtractEv(page))
                  /\ UNCHANGED <<results, records, page, pages_done>>
             ELSE /\ exc' = exc
                  /\ IF NoNextSelector(pagination_config)
                     THEN /\ trace' = Append(trace, ExtractEv(page))
                          /\ pc' = "accumulate"
                          /\ records' = Extend(results, r.value)
                          /\ PaginateFrameGone
                          /\ page' = page
                     ELSE IF ~has_next
                     THEN /\ trace' = trace \o <<ExtractEv(page),
                                                 QueryNextEv(FALSE)>>
                          /\ pc' = "accumulate"
                          /\ records' = Extend(results, r.value)
                          /\ PaginateFrameGone
                          /\ page' = page
                     ELSE /\ trace' = trace \o <<ExtractEv(page),
                                                 QueryNextEv(TRUE)>>
                                             \o ClickNext
                          /\ page' = [page EXCEPT !.clicks = @ + 1]
                          /\ results' = Extend(results, r.value)
                          /\ pages_done' = pages_done + 1
                          /\ pc' = "paginate"
                          /\ records' = records
    /\ UNCHANGED <<config, url_idx, scrolls, unchanged, previous_height,
                   page_number, all_records, returned, navs, projections,
                   sink, unit>>

\* range(max_pages) is exhausted: return results
PaginateExhausted ==
    /\ pc = "paginate"
    /\ ~InRange(pages_done, max_pages)
    /\ pc' = "accumulate"
    /\ records' = results
    /\ PaginateFrameGone
    /\ UNCHANGED <<config, exc, url_idx, page, scrolls, unchanged,
                   previous_height, page_number, all_records, returned,
                   navs, trace, projections, sink, unit>>

(***************************************************************************)
(* paginate_by_url                                                         *)
(***************************************************************************)
\* The statements before the loop without the test of url_template.
PaginateByUrlEnter_unguarded ==
    /\ pc = "paginate_by_url"
    /\ pc' = "paginate_by_url_loop"
    /\ page_number' = start_page
    /\ results' = <<>>
    /\ records' = records
    /\ UNCHANGED <<config, exc, url_idx, page, scrolls, unchanged,
                   previous_height, pages_done, all_records, returned, navs,
                   trace, projections, sink, unit>>
\* The statements before the loop.
PaginateByUrlEnter ==
    /\ pc = "paginate_by_url"
    /\ IF url_template = <<>>
       THEN /\ pc' = "accumulate"
            /\ records' = <<>>
            /\ UNCHANGED <<page_number, results>>
       ELSE /\ pc' = "paginate_by_url_loop"
            /\ page_number' = start_page
            /\ results' = <<>>
            /\ records' = records
    /\ UNCHANGED <<config, exc, url_idx, page, scrolls, unchanged,
                   previous_height, pages_done, all_records, returned, navs,
                   trace, projections, sink, unit>>

\* One iteration of the for loop: goto, extract, wait.
PaginateByUrlIter ==
    /\ pc = "paginate_by_url_loop"
    /\ page_number < start_page + max_pages
    /\ LET url == Format(url_template, page_number)
           loaded == [url |-> url, clicks |-> 0]
       IN  /\ navs' = Append(navs, url)
           /\ \E ok \in BOOLEAN, dom \in Doms(loaded) :
                LET r == extract_items(dom, config)
                IN  IF ~ok
                    THEN /\ NavigationFailure
                         /\ trace' = Append(trace, GotoEv(url, FALSE))
                         /\ UNCHANGED <<page, results, page_number>>
                    ELSE IF r.exc # "none"
                    THEN /\ Fail(r.exc)
                         /\ page' = loaded
                         /\ trace' = trace \o <<GotoEv(url, TRUE),
                                                ExtractEv(loaded)>>
                         /\ UNCHANGED <<results, page_number>>
                    ELSE /\ pc' = "paginate_by_url_loop"
                         /\ exc' = exc
                         /\ page' = loaded
                         /\ trace' = trace \o <<GotoEv(url, TRUE),
                                                ExtractEv(loaded),
                                                Ev("wait")>>
                         /\ results' = Extend(results, r.value)
                         /\ page_number' = page_number + 1
    /\ UNCHANGED <<config, url_idx, scrolls, unchanged, previous_height,
                   pages_done, records, all_records, returned, projections,
                   sink, unit>>

\* The range is exhausted: return results
PaginateByUrlExhausted ==
    /\ pc = "paginate_by_url_loop"
    /\ page_number >= start_page + max_pages
    /\ pc' = "accumulate"
    /\ records' = results
    /\ page_number' = 0
    /\ results' = <<>>
    /\ UNCHANGED <<config, exc, url_idx, page, scrolls, unchanged,
                   previous_height, pages_done, all_records, returned, navs,
                   trace, projections, sink, unit>>

(***************************************************************************)
(* main: after the traversal, and after the loop.                          *)
(***************************************************************************)
\* all_records.extend(records); time.sleep(...); next start URL
MainAccumulate ==
    /\ pc = "accumulate"
    /\ all_records' = Extend(all_records, records)
    /\ returned' = Append(returned, records)
    /\ trace' = <<>>
    /\ records' = <<>>
    /\ url_idx' = url_idx + 1
    /\ pc' = "for_url"
    /\ UNCHANGED <<config, exc, page, scrolls, unchanged, previous_height,
                   pages_done, page_number, results, navs, projections,
                   sink, unit>>

\* browser.close(); all_records = ensure_columns(all_records, columns)
MainProject ==
    /\ pc = "for_url"
    /\ url_idx > Len(start_urls)
    /\ all_records' = ensure_columns(all_records, columns)
    /\ projections' = projections + 1
    /\ pc' = "write"
    /\ UNCHANGED <<config, exc, url_idx, page, scrolls, unchanged,
                   previous_height, pages_done, page_number, results,
                   records, returned, navs, trace, sink, unit>>

\* pd.DataFrame(all_records).to_excel(output_file, index=False)
MainWrite ==
    /\ pc = "write"
    /\ sink' = Append(sink, all_records)
    /\ pc' = "done"
    /\ UNCHANGED <<config, exc, url_idx, page, scrolls, unchanged,
                   previous_height, pages_done, page_number, results,
                   records, all_records, returned, navs, trace, projections,
                   unit>>

Next ==
    \/ MainGoto
    \/ MainDispatch
    \/ ScrollIter
    \/ ScrollExhausted
    \/ ScrollExtract
    \/ PaginateIter
    \/ PaginateExhausted
    \/ PaginateByUrlEnter
    \/ PaginateByUrlIter
    \/ PaginateByUrlExhausted
    \/ MainAccumulate
    \/ MainProject
    \/ MainWrite

Spec == Init /\ [][Next]_vars

(***************************************************************************)
(* The pure functions called on their own.  main is not running: its      *)
(* variables stay at MainIdle; unit holds the arguments and the result.   *)
(***************************************************************************)
MainIdle ==
    /\ config = [extraction |-> [fields |-> Fields]]
    /\ pc = "idle"
    /\ exc = "none"
    /\ url_idx = 1
    /\ page = NoPage
    /\ scrolls = 0
    /\ unchanged = 0
    /\ previous_height = 0
    /\ pages_done = 0
    /\ page_number = 0
    /\ results = <<>>
    /\ records = <<>>
    /\ all_records = <<>>
    /\ returned = <<>>
    /\ navs = <<>>
    /\ trace = <<>>
    /\ projections = 0
    /\ sink = <<>>

\* ensure_columns(records, columns), then ensure_columns on its result.
RecordKeys == {"name", "email"}
RecordValues == {None, Some(<<"A">>), Some(<<"B">>)}
ColumnNames == {"name", "email", "phone"}
\* The dicts over RecordKeys, in every insertion order.
UnitRecords ==
    {d \in SeqsUpTo(RecordKeys \X RecordValues, Cardinality(RecordKeys)) :
        \A i, j \in 1..Len(d) : d[i][1] = d[j][1] => i = j}
RecordLists == SeqsUpTo(UnitRecords, MaxRecs)
ColumnLists == SeqsUpTo(ColumnNames, MaxCols)

InitProjector ==
    /\ MainIdle
    /\ \E r \in RecordLists, c \in ColumnLists :
         unit = [fn |-> "ensure_columns", at |-> "call", given |-> r,
                 records |-> r, columns |-> c, out |-> <<>>, again |-> <<>>]

ProjectorCall ==
    /\ unit.fn = "ensure_columns"
    /\ unit.at = "call"
    /\ unit' = [unit EXCEPT
                   !.out = ensure_columns(unit.records, unit.columns),
                   !.at = "returned"]
    /\ UNCHANGED mainvars

ProjectorCallAgain ==
    /\ unit.fn = "ensure_columns"
    /\ unit.at = "returned"
    /\ unit' = [unit EXCEPT
                   !.again = ensure_columns(unit.out, unit.columns),
                   !.at = "done"]
    /\ UNCHANGED mainvars

NextProjector == ProjectorCall \/ ProjectorCallAgain
SpecProjector == InitProjector /\ [][NextProjector]_vars

\* extract_value(element, field_config)
\* Every text of up to MaxText characters, and two longer ones.
Texts ==
    SeqsUpTo({"a", "b", " ", "\t", "\n"}, MaxText)
    \cup {<<" ", "a", "\n", "\t", " ", "b", " ">>,
          <<" ", " ", "a", "\n", "\t", " ", "b", " ", " ">>}
Hrefs ==
    {<<>>, <<"x">>, MAILTO \o <<"x">>, MAILTO \o MAILTO \o <<"x">>,
     <<" ">> \o MAILTO \o <<"x">>, <<"M">> \o Tail(MAILTO) \o <<"x">>, MAILTO}
Targets ==
    [text : Texts, attrs : [class : {<<"c">>}]]
    \cup [text : {<<"a">>}, attrs : [class : {<<"c">>}, href : Hrefs]]
    \cup [text : {<<"a">>},
          attrs : [class : {<<"c">>}, title : {MAILTO \o <<"x">>}]]
AttrNames == {"", "href", "title"}
UnitElements ==
    {[s \in Selectors |->
         IF s = "" THEN empty ELSE IF s = "h1" THEN found ELSE Ret(None)] :
       empty \in EmptySelectorOutcomes,
       found \in {Ret(None)} \cup {Ret(Some(t)) : t \in Targets}}
FieldConfigs ==
    [kind : {"str"}, selector : Selectors]
    \cup [kind : {"dict"},
          cfg : [selector : Selectors, attr : AttrNames]
                \cup [selector : Selectors]
                \cup [attr : AttrNames]
                \cup [other : {""}]]

InitField ==
    /\ MainIdle
    /\ \E e \in UnitElements, f \in FieldConfigs :
         unit = [fn |-> "extract_value", at |-> "call", element |-> e,
                 field_config |-> f, result |-> Ret(None)]

FieldCall ==
    /\ unit.fn = "extract_value"
    /\ unit.at = "call"
    /\ unit' = [unit EXCEPT
                   !.result = extract_value(unit.element, unit.field_config),
                   !.at = "done"]
    /\ UNCHANGED mainvars

NextField == FieldCall
SpecField == InitField /\ [][NextField]_vars

(***************************************************************************)
(* Readings of the history of the start URL being processed.               *)
(***************************************************************************)
CountOp(t, o) == Cardinality({i \in 1..Len(t) : t[i].op = o})
\* The heights measured so far by the current scroll_page call, in order.
Measured ==
    LET IsMeasure(e) == e.op = "measure"
        m == SelectSeq(trace, IsMeasure)
    IN  [i \in 1..Len(m) |-> m[i].height]
\* The measurement at position i repeats the one before it (the baseline
\* 0 before the first).
Repeats(m, i) == m[i] = (IF i = 1 THEN 0 ELSE m[i - 1])
\* The number of measurements at the end of m that repeat their predecessor.
TrailingRepeats(m) ==
    LET ks == {k \in 0..Len(m) :
                  \A i \in (Len(m) - k + 1)..Len(m) : Repeats(m, i)}
    IN  CHOOSE k \in ks : \A j \in ks : j <= k

InScrollMode == mode = "infinite_scroll"
InClickMode == mode = "pagination" /\ url_template = <<>>
InUrlMode == mode = "pagination" /\ url_template # <<>>

(***************************************************************************)
(* C1.                                                                     *)
(***************************************************************************)
C1Case == InScrollMode /\ stop_after_unchanged = 3 /\ max_scrolls > 4

\* C1 as stated: with stop_after_unchanged = 3 and max_scrolls > 4, once
\* the heights 100, 200, 200, 200 have been measured the scroll loop has
\* halted (4 measurements in total).
C1_Stated ==
    (C1Case /\ Measured = <<100, 200, 200, 200>>) => pc # "scroll_page"

\* C1, amended: the loop stops right after the first measurement that
\* ends a run of at least stop_after_unchanged consecutive measurements each
\* repeating the measurement before it (baseline 0), and not before unless
\* max_scrolls is exhausted.  With stop_after_unchanged
\* = 3 and max_scrolls > 4, after the heights 100, 200, 200, 200 the loop
\* is still running with unchanged = 2, and after 100, 200, 200, 200, 200
\* it has halted, at exactly 5 measurements.
C1_Amended ==
    /\ InScrollMode /\ pc = "scroll_page"
          => /\ Len(Measured) = scrolls
             /\ scrolls >= 1
                   => TrailingRepeats(Measured) < stop_after_unchanged
             /\ scrolls <= max_scrolls
    /\ InScrollMode /\ pc = "scroll_extract"
          => \/ Len(Measured) = max_scrolls
             \/ /\ Len(Measured) >= 1
                /\ TrailingRepeats(Measured) >= stop_after_unchanged
    /\ C1Case /\ Measured = <<100, 200, 200, 200>>
          => pc = "scroll_page" /\ unchanged = 2
    /\ C1Case /\ Len(Measured) >= 5
          /\ SubSeq(Measured, 1, 5) = <<100, 200, 200, 200, 200>>
          => Len(Measured) = 5 /\ pc # "scroll_page"

\* The loop has halted on the fifth measurement although max_scrolls
\* allows more.
C1_Witness ==
    /\ C1Case
    /\ max_scrolls > 5
    /\ Measured = <<100, 200, 200, 200, 200>>
    /\ pc = "scroll_extract"

(***************************************************************************)
(* C2.                                                                     *)
(***************************************************************************)
C2Case == InClickMode /\ Falsy(pagination_config, "next_button_selector")

\* C2 as stated: click pagination without a next_button_selector has
\* invoked the Record Extractor exactly once when paginate returns, for
\* every max_pages.
C2_Stated ==
    C2Case /\ pc = "accumulate" => CountOp(trace, "extract") = 1

\* C2, amended: click pagination without a next_button_selector never
\* invokes the Record Extractor more than once, and never clicks or looks
\* for a next control; when paginate returns it has invoked it exactly
\* once if max_pages >= 1 and not at all if max_pages <= 0.
C2_Amended ==
    C2Case =>
        /\ CountOp(trace, "extract") <= 1
        /\ CountOp(trace, "click") = 0
        /\ CountOp(trace, "query_next") = 0
        /\ pc = "accumulate" =>
              CountOp(trace, "extract") = (IF max_pages >= 1 THEN 1 ELSE 0)
        /\ pc = "raised" /\ exc = "KeyError" =>
              CountOp(trace, "extract") = 1

\* paginate has returned after one extraction although max_pages allows
\* more, with the selector configured as the empty string.
C2_Witness ==
    /\ C2Case
    /\ "next_button_selector" \in DOMAIN pagination_config
    /\ max_pages >= 2
    /\ pc = "accumulate"
    /\ CountOp(trace, "extract") = 1
    /\ records # <<>>

(***************************************************************************)
(* C3.                                                                     *)
(***************************************************************************)
\* The URLs of the goto calls that followed the goto of the start URL.
TemplatedNavs ==
    LET IsGoto(e) == e.op = "goto"
        g == SelectSeq(Tail(trace), IsGoto)
    IN  [i \in 1..Len(g) |-> g[i].url]
NoNavigationFailed == \A i \in 1..Len(trace) : trace[i].op = "goto" => trace[i].ok
UrlCycle == <<"goto", "extract", "wait">>

\* C3 as stated: in URL-templated pagination, as long as no navigation
\* fails, the navigations after the start URL go to the pages start_page,
\* start_page + 1, ... in that order, each is followed by one extraction
\* and then a pause, and the traversal does not end before max_pages
\* navigations.
C3_Stated ==
    (InUrlMode /\ NoNavigationFailed
        /\ pc \in {"paginate_by_url_loop", "accumulate", "raised"})
    => /\ Len(TemplatedNavs) <= max_pages
       /\ \A i \in 1..Len(TemplatedNavs) :
             TemplatedNavs[i] = Format(url_template, start_page + i - 1)
       /\ Len(trace) = 1 + 3 * Len(TemplatedNavs)
       /\ \A i \in 2..Len(trace) : trace[i].op = UrlCycle[((i - 2) % 3) + 1]
       /\ pc # "paginate_by_url_loop" => Len(TemplatedNavs) = max_pages

(***************************************************************************)
(* C4.                                                                     *)
(***************************************************************************)
ConfigurationError ==
    \/ mode \notin {"infinite_scroll", "pagination"}
    \/ "item_selector" \notin DOMAIN config.extraction

\* C4 as stated: a run whose configuration has an unknown mode or lacks
\* item_selector performs no navigation and does not reach the sink.
C4_Stated ==
    ConfigurationError => navs = <<>> /\ sink = <<>> /\ pc # "done"

(***************************************************************************)
(* C5.                                                                     *)
(***************************************************************************)
NavigationFailed == ~NoNavigationFailed

\* C5: once a page.goto has failed the run has ended with that failure,
\* the failed goto is the last driver call of the run (no navigation,
\* extraction, click, scroll or second goto of that URL follows), nothing
\* changes afterwards, and ensure_columns and the sink were never invoked.
C5_NavigationFailureTerminal ==
    /\ [](NavigationFailed =>
             /\ pc = "raised"
             /\ exc = "NavigationError"
             /\ trace[Len(trace)].op = "goto"
             /\ ~trace[Len(trace)].ok
             /\ trace[Len(trace)].url = navs[Len(navs)]
             /\ \A i \in 1..(Len(trace) - 1) :
                   trace[i].op = "goto" => trace[i].ok
             /\ projections = 0
             /\ sink = <<>>)
    /\ [][NavigationFailed => UNCHANGED vars]_vars

\* The second start URL's second templated page failed to load after
\* records had been gathered from the first start URL.
C5_Witness ==
    /\ NavigationFailed
    /\ InUrlMode
    /\ Len(trace) = 5
    /\ all_records # <<>>
    /\ url_idx = 2

(***************************************************************************)
(* C6.                                                                     *)
(***************************************************************************)
\* C6: in infinite-scroll mode the history of a start URL is its goto,
\* then scroll / wait / measure steps, then at most one extraction, which
\* is the last entry (no scroll follows it) and is made only when the
\* loop has ended by stabilisation or by max_scrolls; when the start URL
\* has been processed there was exactly one extraction.
C6_ExtractOnceAfterScroll ==
    InScrollMode =>
        /\ CountOp(trace, "extract") <= 1
        /\ \A i \in 1..Len(trace) :
              /\ trace[i].op \in {"goto", "scroll", "wait", "measure", "extract"}
              /\ trace[i].op = "goto" => i = 1
              /\ trace[i].op = "extract" =>
                    /\ i = Len(trace)
                    /\ \/ Len(Measured) = max_scrolls
                       \/ /\ Len(Measured) >= 1
                          /\ TrailingRepeats(Measured) >= stop_after_unchanged
        /\ pc \in {"scroll_page", "scroll_extract"} =>
              CountOp(trace, "extract") = 0
        /\ pc = "accumulate" => CountOp(trace, "extract") = 1

\* The second start URL has been scrolled four times and then extracted.
C6_Witness ==
    /\ InScrollMode
    /\ pc = "accumulate"
    /\ url_idx = 2
    /\ Len(Measured) = 4
    /\ CountOp(trace, "extract") = 1
    /\ records # <<>>

(***************************************************************************)
(* C7.                                                                     *)
(***************************************************************************)
RECURSIVE Concat(_)
Concat(lists) ==
    IF lists = <<>> THEN <<>> ELSE Head(lists) \o Concat(Tail(lists))
IsPrefix(a, b) == Len(a) <= Len(b) /\ SubSeq(b, 1, Len(a)) = a

\* C7: all_records starts empty and, until it is projected, is the
\* concatenation of what the traversals of the processed start URLs
\* returned, in start_urls order, every step leaving its old contents as
\* a prefix; ensure_columns and then the sink are invoked at most once
\* each, only when every start URL has been processed, and exactly once
\* each in a run that completes.
C7_ResultSetLifecycle ==
    /\ [](/\ returned = <<>> => all_records = <<>>
          /\ Len(returned) = url_idx - 1
          /\ Len(returned) <= Len(start_urls)
          /\ projections = 0 => all_records = Concat(returned)
          /\ projections <= 1
          /\ Len(sink) <= projections
          /\ projections = 1 =>
                /\ Len(returned) = Len(start_urls)
                /\ all_records = ensure_columns(Concat(returned), columns)
          /\ pc = "done" => projections = 1 /\ sink = <<all_records>>)
    /\ [][projections' = 0 => IsPrefix(all_records, all_records')]_vars

\* A completed run over two start URLs whose traversals returned
\* different, non-empty record lists.
C7_Witness ==
    /\ pc = "done"
    /\ Len(returned) = 2
    /\ returned[1] # <<>>
    /\ returned[2] # <<>>
    /\ returned[1] # returned[2]

(***************************************************************************)
(* C8.                                                                     *)
(***************************************************************************)
\* s without the later repetitions of its elements.
RECURSIVE Dedup(_)
Dedup(s) ==
    IF s = <<>> THEN <<>>
    ELSE LET front == Dedup(SubSeq(s, 1, Len(s) - 1))
             last == s[Len(s)]
         IN  IF \E i \in 1..Len(front) : front[i] = last
             THEN front ELSE Append(front, last)
\* The value of key k in record r, None when r has no such key.
ValueOrNull(r, k) ==
    IF \E j \in 1..Len(r) : r[j][1] = k
    THEN LET j == CHOOSE j \in 1..Len(r) : r[j][1] = k IN r[j][2]
    ELSE None
Projected == unit.fn = "ensure_columns" /\ unit.at # "call"

\* C8: ensure_columns returns one record per input record, in the same
\* order; the keys of each output record are exactly the columns, in the
\* order of the column list (a column listed twice is one key); a column's
\* value is the source record's value for that key, null when the source
\* has no such key; source keys outside columns are absent from the
\* output; the input records are as they were given.
C8_Projection ==
    Projected =>
        /\ Len(unit.out) = Len(unit.records)
        /\ \A i \in 1..Len(unit.out) :
              /\ DictKeys(unit.out[i]) = Dedup(unit.columns)
              /\ \A j \in 1..Len(unit.out[i]) :
                    unit.out[i][j][2] =
                        ValueOrNull(unit.records[i], unit.out[i][j][1])
        /\ unit.records = unit.given

\* Two different records were projected; the first has a key that is not
\* a column and lacks a column.
C8_Witness ==
    /\ Projected
    /\ Len(unit.records) = 2
    /\ unit.records[1] # unit.records[2]
    /\ unit.columns = <<"phone", "name">>
    /\ DictHas(unit.records[1], "email")
    /\ DictGet(unit.records[1], "name") = Some(<<"A">>)
    /\ unit.out[1] = << <<"phone", None>>, <<"name", Some(<<"A">>)>> >>

(***************************************************************************)
(* C9.                                                                     *)
(***************************************************************************)
\* C9: ensure_columns applied to its own result with the same columns
\* returns that result.
C9_Idempotent ==
    (unit.fn = "ensure_columns" /\ unit.at = "done") => unit.again = unit.out

\* The second projection was applied to a result that differs from the
\* original input.
C9_Witness ==
    /\ unit.fn = "ensure_columns"
    /\ unit.at = "done"
    /\ Len(unit.out) = 2
    /\ unit.out[1] # unit.out[2]
    /\ unit.out # unit.records
    /\ unit.again = unit.out

(***************************************************************************)
(* C10.                                                                    *)
(***************************************************************************)
EmptySelector(f) ==
    IF f.kind = "str" THEN f.selector = "" ELSE Falsy(f.cfg, "selector")

\* C10 as stated: for a field_config whose selector is empty (bare empty
\* string, or structured with an empty or missing selector) extract_value
\* returns None and does not raise.
C10_Stated ==
    (unit.fn = "extract_value" /\ unit.at = "done"
        /\ EmptySelector(unit.field_config))
    => unit.result = Ret(None)

(***************************************************************************)
(* C11.                                                                    *)
(***************************************************************************)
\* The selector and the attribute a field_config names, "" when none.
FieldSelector(f) ==
    IF f.kind = "str" THEN f.selector ELSE Get(f.cfg, "selector", "")
FieldAttr(f) == IF f.kind = "str" THEN "" ELSE Get(f.cfg, "attr", "")
FieldDone == unit.fn = "extract_value" /\ unit.at = "done"
\* What the element answered to the lookup of the field's selector.
Looked == unit.element[FieldSelector(unit.field_config)]
LookupMiss == Looked = Ret(None)
AttributeMiss ==
    /\ Looked.exc = "none"
    /\ Looked.value # None
    /\ FieldAttr(unit.field_config) # ""
    /\ FieldAttr(unit.field_config) \notin DOMAIN Looked.value[1].attrs

\* C11: for a field_config (bare or structured) with a non-empty selector,
\* when no descendant matches the selector, or the matched element lacks
\* the requested attribute, extract_value returns None and does not raise.
C11_LookupMissIsNull ==
    (FieldDone /\ FieldSelector(unit.field_config) # ""
        /\ (LookupMiss \/ AttributeMiss))
    => unit.result = Ret(None)
\* A structured spec asked for href on a matched element that has none.
C11_Witness ==
    /\ FieldDone
    /\ unit.field_config.kind = "dict"
    /\ FieldSelector(unit.field_config) = "h1"
    /\ FieldAttr(unit.field_config) = "href"
    /\ AttributeMiss
    /\ unit.result = Ret(None)

(***************************************************************************)
(* C12.                                                                    *)
(***************************************************************************)
\* The matched element carries the requested attribute.
AttributeHit ==
    /\ Looked.exc = "none"
    /\ Looked.value # None
    /\ FieldAttr(unit.field_config) # ""
    /\ FieldAttr(unit.field_config) \in DOMAIN Looked.value[1].attrs
RawAttr == Looked.value[1].attrs[FieldAttr(unit.field_config)]
HasMailto(raw) == Len(raw) >= 7 /\ SubSeq(raw, 1, 7) = MAILTO
\* raw without its first seven characters when they are "mailto:" and the
\* attribute is href, raw itself otherwise.
WithoutMailto(attr, raw) ==
    IF attr = "href" /\ HasMailto(raw) THEN SubSeq(raw, 8, Len(raw)) ELSE raw
NoWhitespace(s) == \A i \in 1..Len(s) : s[i] \notin Whitespace

\* C12: when the attribute is exactly href and the raw value starts with
\* "mailto:" (case-sensitive), extract_value returns the value with only
\* that leading prefix removed, later occurrences kept; for every other
\* attribute name, and for href values that do not start with the prefix,
\* the value passes through unchanged.  What is returned is that value
\* after whitespace normalization: the value itself when it is non-empty
\* and holds no whitespace.
C12_MailtoPrefix ==
    (FieldDone /\ FieldSelector(unit.field_config) # "" /\ AttributeHit)
    => LET expected ==
               WithoutMailto(FieldAttr(unit.field_config), RawAttr)
       IN  /\ unit.result = Ret(normalize_text(Some(expected)))
           /\ (expected # <<>> /\ NoWhitespace(expected))
                  => unit.result = Ret(Some(expected))
\* href="mailto:mailto:x" gave "mailto:x".
C12_Witness ==
    /\ FieldDone
    /\ AttributeHit
    /\ FieldAttr(unit.field_config) = "href"
    /\ RawAttr = MAILTO \o MAILTO \o <<"x">>
    /\ unit.result = Ret(Some(MAILTO \o <<"x">>))

(***************************************************************************)
(* C13.                                                                    *)
(***************************************************************************)
IsInk(c) == c \notin Whitespace
\* The number of non-whitespace characters among the first i of s.
InkRank(s, i) == Cardinality({j \in 1..i : IsInk(s[j])})
\* The position in s of its k-th non-whitespace character.
InkAt(s, k) == CHOOSE i \in 1..Len(s) : IsInk(s[i]) /\ InkRank(s, i) = k
\* out is the whitespace-normal form of the text in: the same
\* non-whitespace characters in the same order, no whitespace at either
\* end, and exactly one space wherever in has a run of whitespace between
\* two non-whitespace characters.
IsNormalFormOf(in, out) ==
    LET n == InkRank(in, Len(in))
    IN  /\ SelectSeq(out, IsInk) = SelectSeq(in, IsInk)
        /\ Len(out) > 0
        /\ IsInk(out[1])
        /\ IsInk(out[Len(out)])
        /\ \A i \in 1..Len(out) : ~IsInk(out[i]) => out[i] = " "
        /\ \A k \in 1..(n - 1) :
              InkAt(out, k + 1) - InkAt(out, k) =
                  (IF InkAt(in, k + 1) - InkAt(in, k) = 1 THEN 1 ELSE 2)
\* normalize_text as the claim describes it, on an optional text.
Normalizes(value, result) ==
    IF value = None \/ SelectSeq(value[1], IsInk) = <<>>
    THEN result = None
    ELSE result # None /\ IsNormalFormOf(value[1], result[1])
\* The optional text extract_value read from the matched element, after
\* the mailto: strip and before normalization.
SourceText ==
    IF FieldAttr(unit.field_config) = "" THEN Some(Looked.value[1].text)
    ELSE IF AttributeHit
    THEN Some(WithoutMailto(FieldAttr(unit.field_config), RawAttr))
    ELSE None

\* C13: normalize_text collapses every run of whitespace (spaces, tabs,
\* newlines) to one space and trims both ends ("  a\n\t b  " gives "a b"),
\* returns None, never the empty string, when nothing would be left, and
\* None for None; every value extract_value returns for a matched element
\* has been passed through this normalization.
C13_Normalization ==
    (FieldDone /\ FieldSelector(unit.field_config) # ""
        /\ Looked.exc = "none" /\ Looked.value # None)
    => /\ unit.result.exc = "none"
       /\ unit.result.value # Some(<<>>)
       /\ Normalizes(SourceText, unit.result.value)
\* The text "  a\n\t b  " came back as "a b".
C13_Witness ==
    /\ FieldDone
    /\ FieldSelector(unit.field_config) = "h1"
    /\ FieldAttr(unit.field_config) = ""
    /\ Looked.exc = "none"
    /\ Looked.value # None
    /\ Looked.value[1].text =
           <<" ", " ", "a", "\n", "\t", " ", "b", " ", " ">>
    /\ unit.result = Ret(Some(<<"a", " ", "b">>))

(***************************************************************************)
(* C14.                                                                    *)
(***************************************************************************)
\* scroll_page(page, scroll_config) called on its own, on a loaded page.
\* The interpreter keeps running the call: a step that can be taken is
\* taken.
ScrollRunConfigs ==
    {c \in Configs :
        /\ "scroll" \in DOMAIN c
        /\ c.start_urls = << <<"a">> >>
        /\ "item_selector" \in DOMAIN c.extraction}
InitScroll ==
    /\ config \in ScrollRunConfigs
    /\ pc = "scroll_page"
    /\ exc = "none"
    /\ url_idx = 1
    /\ page = [url |-> <<"a">>, clicks |-> 0]
    /\ scrolls = 0
    /\ unchanged = 0
    /\ previous_height = 0
    /\ pages_done = 0
    /\ page_number = 0
    /\ results = <<>>
    /\ records = <<>>
    /\ all_records = <<>>
    /\ returned = <<>>
    /\ navs = <<>>
    /\ trace = <<>>
    /\ projections = 0
    /\ sink = <<>>
    /\ unit = [fn |-> "scroll_page"]
NextScroll == ScrollIter \/ ScrollExhausted
SpecScroll == InitScroll /\ [][NextScroll]_vars /\ WF_vars(NextScroll)

\* The driver calls of the current scroll_page call, in order.
ScrollCalls ==
    LET IsScrollCall(e) == e.op \in {"scroll", "wait", "measure"}
    IN  SelectSeq(trace, IsScrollCall)
\* The value of unchanged at the end of the k-th iteration.
UnchangedAfter(m, k) == TrailingRepeats(SubSeq(m, 1, k))
\* scroll_page has returned for the start URL being processed.
ScrollReturned ==
    InScrollMode /\ (pc = "scroll_extract" \/ CountOp(trace, "extract") > 0)

C14_Order ==
    InScrollMode =>
        /\ Len(ScrollCalls) = 3 * Len(Measured)
        /\ \A k \in 1..Len(Measured) :
              /\ ScrollCalls[3 * k - 2].op = "scroll"
              /\ ScrollCalls[3 * k - 1].op = "wait"
              /\ ScrollCalls[3 * k].op = "measure"
C14_Counter ==
    (InScrollMode /\ pc = "scroll_page") =>
        /\ scrolls = Len(Measured)
        /\ unchanged = TrailingRepeats(Measured)
        /\ previous_height =
               (IF scrolls = 0 THEN 0 ELSE Measured[scrolls])
        /\ \A k \in 1..scrolls :
              UnchangedAfter(Measured, k) < stop_after_unchanged
C14_Exit ==
    ScrollReturned =>
        LET n == Len(Measured)
        IN  /\ \A k \in 1..(n - 1) :
                  UnchangedAfter(Measured, k) < stop_after_unchanged
            /\ \/ n = max_scrolls
               \/ n >= 1 /\ UnchangedAfter(Measured, n) >= stop_after_unchanged
C14_Bound == InScrollMode => CountOp(trace, "scroll") <= max_scrolls
\* A step of the loop is one more iteration or the return; none raises.
C14_Step ==
    pc = "scroll_page" =>
        /\ exc' = "none"
        /\ \/ pc' = "scroll_extract"
           \/ pc' = "scroll_page" /\ scrolls' = scrolls + 1

\* C14: every iteration of scroll_page scrolls to the bottom, pauses and
\* measures the height once, in that order; unchanged (initially 0, with
\* baseline height 0) is incremented when the measured height equals the
\* previous one and reset to 0 otherwise; the loop exits right after the
\* first iteration at whose end unchanged >= stop_after_unchanged, or after
\* max_scrolls iterations, whichever comes first; the number of scrolls
\* never exceeds max_scrolls, and the loop always terminates, without error.
C14_ScrollLoop ==
    /\ [](C14_Order /\ C14_Counter /\ C14_Exit /\ C14_Bound)
    /\ [][C14_Step]_vars
    /\ (pc = "scroll_page") ~> (pc = "scroll_extract")
\* The counter was reset after a repeat and the loop ran out of iterations.
C14_Witness ==
    /\ ScrollReturned
    /\ Len(Measured) = max_scrolls
    /\ max_scrolls >= 3
    /\ UnchangedAfter(Measured, max_scrolls) < stop_after_unchanged
    /\ \E k \in 2..max_scrolls :
          /\ UnchangedAfter(Measured, k - 1) > 0
          /\ UnchangedAfter(Measured, k) = 0

(***************************************************************************)
(* C15.                                                                    *)
(***************************************************************************)
\* Click-based pagination with a next-button selector configured.
ClickRun == InClickMode /\ ~Falsy(pagination_config, "next_button_selector")
\* The page states extracted for the start URL being processed, in order.
Extracted ==
    LET IsExtract(e) == e.op = "extract"
        x == SelectSeq(trace, IsExtract)
    IN  [i \in 1..Len(x) |-> x[i].page]
\* The driver's answers to the lookups of the next button, in order.
Lookups ==
    LET IsLookup(e) == e.op = "query_next"
        q == SelectSeq(trace, IsLookup)
    IN  [i \in 1..Len(q) |-> q[i].found]
ClickSteps ==
    LET IsStep(e) == e.op \in {"extract", "query_next"}
    IN  SelectSeq(trace, IsStep)
\* P1, P2, ..: the start URL's page after i - 1 clicks on the next button.
PageState(i) == [url |-> start_urls[url_idx], clicks |-> i - 1]
\* The records of the two items of page state p.
PageRecords(p) ==
    << << <<"name", Some(PageId(p))>>, <<"email", Some(<<"i", "@", "a">>)>> >>,
       << <<"name", Some(PageId(p))>>, <<"email", None>> >> >>
\* recs is, page by page in the order of pages, the records of the page's
\* items (a page state may show no item).
IsPagewise(recs, pages) ==
    \E full \in [1..Len(pages) -> BOOLEAN] :
        recs = Concat([i \in 1..Len(pages) |->
                          IF full[i] THEN PageRecords(pages[i]) ELSE <<>>])
Min(a, b) == IF a <= b THEN a ELSE b

C15_InOrder ==
    ClickRun =>
        /\ Len(Extracted) <= max_pages
        /\ \A i \in 1..Len(Extracted) : Extracted[i] = PageState(i)
        /\ \A i \in 1..Len(ClickSteps) :
              ClickSteps[i].op =
                  (IF i % 2 = 1 THEN "extract" ELSE "query_next")
C15_Count ==
    (ClickRun /\ pc = "accumulate") =>
        LET n == Len(Extracted)
            missing == {i \in 1..Len(Lookups) : ~Lookups[i]}
            j == CHOOSE i \in missing : \A k \in missing : i <= k
        IN  /\ exc = "none"
            /\ Len(Lookups) = n
            /\ n = (IF missing = {} THEN max_pages ELSE Min(max_pages, j))
            /\ IsPagewise(records, Extracted)

\* C15: with a next-button selector configured, P1 the initial page state,
\* P(i+1) the state after clicking next on Pi and j the smallest index whose
\* page shows no next control, paginate extracts exactly min(max_pages, j)
\* times, once on each of P1..P(min(max_pages, j)) in that order, each
\* extraction before the lookup of the next control on that page, and
\* returns the concatenation of the extractions in page order; a missing
\* next control ends the traversal normally.
C15_ClickPagination == C15_InOrder /\ C15_Count
\* The second page had no next button and both pages gave records.
C15_Witness ==
    /\ ClickRun
    /\ pc = "accumulate"
    /\ max_pages = 3
    /\ Lookups = <<TRUE, FALSE>>
    /\ records = PageRecords(PageState(1)) \o PageRecords(PageState(2))

(***************************************************************************)
(* C16.                                                                    *)
(***************************************************************************)
\* The number of clicks among the first i events of the history.
ClicksUpTo(i) == Cardinality({k \in 1..i : trace[k].op = "click"})
\* The click at position i of the history is followed by the pause.
PauseFollows(i) == i < Len(trace) /\ trace[i + 1].op = "wait"
\* The click at position i is followed by the pause and then by the
\* extraction of the page state that click produced.
ExtractionFollows(i) ==
    /\ i + 2 <= Len(trace)
    /\ trace[i + 1].op = "wait"
    /\ trace[i + 2] = ExtractEv(PageState(ClicksUpTo(i) + 1))
\* paginate has returned for the start URL being processed.
ClickReturned == InClickMode /\ pc = "accumulate"

\* C16 as stated: every click of the next control is followed by the pause
\* and then by a further iteration that extracts the page the click
\* produced; paginate never returns having clicked to a page it did not
\* extract, also when the loop ends by exhaustion of max_pages.
C16_Stated ==
    ClickReturned =>
        \A i \in 1..Len(trace) :
            trace[i].op = "click" => ExtractionFollows(i)

\* C16 amended: every click is followed by the pause; a click that is
\* followed by anything more is followed by the extraction of the page it
\* produced, and so is every click of an iteration before the max_pages-th;
\* paginate returns after a click to a page it did not extract exactly
\* when its max_pages-th iteration found the next control: it then has
\* made max_pages extractions and max_pages clicks.
C16_Amended ==
    /\ InClickMode =>
          \A i \in 1..Len(trace) :
              (trace[i].op = "click") =>
                  /\ PauseFollows(i)
                  /\ (i + 2 <= Len(trace)) => ExtractionFollows(i)
    /\ ClickReturned =>
          LET n == Len(Extracted)
          IN  /\ \A i \in 1..Len(trace) :
                    (trace[i].op = "click") =>
                        \/ ExtractionFollows(i)
                        \/ (i + 1 = Len(trace) /\ n = max_pages)
              /\ (n > 0 /\ n = max_pages /\ Len(Lookups) = n /\ Lookups[n]) =>
                    /\ trace[Len(trace) - 1].op = "click"
                    /\ CountOp(trace, "click") = max_pages
                    /\ page = PageState(max_pages + 1)
\* Two pages were allowed, both had a next button: paginate returned after
\* the second click, on a third page state it never extracted.
C16_Witness ==
    /\ ClickReturned
    /\ max_pages = 2
    /\ Len(Extracted) = 2
    /\ CountOp(trace, "click") = 2
    /\ page = PageState(3)

(***************************************************************************)
(* C17.                                                                    *)
(***************************************************************************)
\* paginate_by_url(page, pagination_config, extract_callback) called on
\* its own, on a loaded page, with every pagination section of Configs.
ByUrlConfigs ==
    {c \in Configs :
        /\ "pagination" \in DOMAIN c
        /\ c.start_urls = << <<"a">> >>}
InitByUrl ==
    /\ config \in ByUrlConfigs
    /\ pc = "paginate_by_url"
    /\ exc = "none"
    /\ url_idx = 1
    /\ page = [url |-> <<"a">>, clicks |-> 0]
    /\ scrolls = 0
    /\ unchanged = 0
    /\ previous_height = 0
    /\ pages_done = 0
    /\ page_number = 0
    /\ results = <<>>
    /\ records = <<>>
    /\ all_records = <<>>
    /\ returned = <<>>
    /\ navs = <<>>
    /\ trace = <<>>
    /\ projections = 0
    /\ sink = <<>>
    /\ unit = [fn |-> "paginate_by_url"]
NextByUrl ==
    PaginateByUrlEnter \/ PaginateByUrlIter \/ PaginateByUrlExhausted
SpecByUrl == InitByUrl /\ [][NextByUrl]_vars

\* No URL template is configured: the key is absent, or its value is empty.
TemplateMissing ==
    \/ "url_template" \notin DOMAIN config.pagination
    \/ config.pagination.url_template = <<>>

\* C17: when no URL template is configured (absent or empty),
\* paginate_by_url returns an empty result without any navigation,
\* extraction or pause.
C17_NoTemplate ==
    (TemplateMissing /\ pc # "paginate_by_url")
    => /\ pc = "accumulate"
       /\ exc = "none"
       /\ records = <<>>
       /\ trace = <<>>
       /\ navs = <<>>
       /\ page = [url |-> <<"a">>, clicks |-> 0]
\* The call returned for an empty template with three pages allowed.
C17_Witness ==
    /\ pc = "accumulate"
    /\ "url_template" \in DOMAIN config.pagination
    /\ config.pagination.url_template = <<>>
    /\ config.pagination.max_pages = 3
    /\ records = <<>>

(***************************************************************************)
(* C18.                                                                    *)
(***************************************************************************)
\* extract_items(page, config) called on its own.  The page shows up to
\* MaxItems items, each one of three kinds: the two items of a page and an
\* item in which no selector matches anything.
ElemVoid == [s \in Selectors |-> Ret(None)]
ItemElements ==
    {ElemAcme([url |-> <<"a">>, clicks |-> 0]),
     ElemBare([url |-> <<"a">>, clicks |-> 0]), ElemVoid}
ItemDoms == SeqsUpTo(ItemElements, MaxItems)
\* Schemas: the one of Configs, the same in the other order, one without
\* fields, one whose only field has no selector, one with a bare "".
ItemFields ==
    {Fields, <<Fields[2], Fields[1]>>, <<>>,
     << <<"phone", [kind |-> "dict", cfg |-> [attr |-> "href"]]>> >>,
     << Fields[1], <<"note", [kind |-> "str", selector |-> ""]>> >>}
ItemExtractions ==
    [item_selector : {".item"}, fields : ItemFields]
    \cup [fields : ItemFields]
    \cup [item_selector : {".item"}]
ItemConfigs ==
    [extraction : ItemExtractions] \cup [mode : {"pagination"}]
InitItems ==
    /\ MainIdle
    /\ \E d \in ItemDoms, c \in ItemConfigs :
         unit = [fn |-> "extract_items", at |-> "call", dom |-> d,
                 config |-> c, result |-> Ret(<<>>)]
ItemsCall ==
    /\ unit.fn = "extract_items"
    /\ unit.at = "call"
    /\ unit' = [unit EXCEPT !.result = extract_items(unit.dom, unit.config),
                            !.at = "done"]
    /\ UNCHANGED mainvars
NextItems == ItemsCall
SpecItems == InitItems /\ [][NextItems]_vars

\* The call is over and the configuration carries a whole schema.
ItemsDone ==
    /\ unit.fn = "extract_items"
    /\ unit.at = "done"
    /\ "extraction" \in DOMAIN unit.config
    /\ DOMAIN unit.config.extraction = {"item_selector", "fields"}
SchemaFields == unit.config.extraction.fields
SchemaNames == [k \in 1..Len(SchemaFields) |-> SchemaFields[k][1]]
\* The driver rejected a selector of the schema on some item.
DriverRaised ==
    \E i \in 1..Len(unit.dom), k \in 1..Len(SchemaFields) :
        extract_value(unit.dom[i], SchemaFields[k][2]).exc # "none"

\* C18: extract_items returns exactly one record per element matching
\* item_selector, in document order, with no filtering even when every
\* field of a record is None; every record has exactly the schema's field
\* names as its keys; a page state with no matching element gives the
\* empty sequence.  (It returns unless the driver raises on a selector.)
C18_OneRecordPerItem ==
    ItemsDone =>
        /\ (unit.result.exc # "none") <=> DriverRaised
        /\ (unit.dom = <<>>) => unit.result = Ret(<<>>)
        /\ (unit.result.exc = "none") =>
              /\ Len(unit.result.value) = Len(unit.dom)
              /\ \A i \in 1..Len(unit.dom) :
                    /\ DictKeys(unit.result.value[i]) = SchemaNames
                    /\ \A k \in 1..Len(SchemaFields) :
                          unit.result.value[i][k][2] =
                              extract_value(unit.dom[i],
                                            SchemaFields[k][2]).value
\* Three items, the middle one without any match: three records, the
\* middle one all None.
C18_Witness ==
    /\ ItemsDone
    /\ SchemaFields = Fields
    /\ Len(unit.dom) = 3
    /\ unit.dom[2] = ElemVoid
    /\ unit.dom[1] # ElemVoid
    /\ unit.result.exc = "none"
    /\ Len(unit.result.value) = 3
    /\ unit.result.value[2] = << <<"name", None>>, <<"email", None>> >>

(***************************************************************************)
(* C19.                                                                    *)
(***************************************************************************)
\* The strategy the configuration asks for, read from the configuration
\* itself: "none" for a mode that is neither of the two.
ExpectedStrategy ==
    IF "mode" \notin DOMAIN config THEN "scroll"
    ELSE IF config.mode = "infinite_scroll" THEN "scroll"
    ELSE IF config.mode = "pagination"
    THEN IF /\ "pagination" \in DOMAIN config
            /\ "url_template" \in DOMAIN config.pagination
            /\ config.pagination.url_template # <<>>
         THEN "by_url"
         ELSE "click"
    ELSE "none"
\* The strategy a position of the run belongs to.
StrategyAt(p) ==
    IF p \in {"scroll_page", "scroll_extract"} THEN "scroll"
    ELSE IF p = "paginate" THEN "click"
    ELSE IF p \in {"paginate_by_url", "paginate_by_url_loop"} THEN "by_url"
    ELSE "none"
\* The first position of a strategy.
EntryOf(s) ==
    IF s = "scroll" THEN "scroll_page"
    ELSE IF s = "click" THEN "paginate"
    ELSE IF s = "by_url" THEN "paginate_by_url"
    ELSE "raised"
\* The driver calls and extractions a strategy makes.
OpsOf(s) ==
    IF s = "scroll" THEN {"scroll", "wait", "measure", "extract"}
    ELSE IF s = "click" THEN {"extract", "query_next", "click", "wait"}
    ELSE IF s = "by_url" THEN {"goto", "extract", "wait"}
    ELSE {}

C19_Running ==
    /\ StrategyAt(pc) \in {"none", ExpectedStrategy}
    /\ \A i \in 2..Len(trace) : trace[i].op \in OpsOf(ExpectedStrategy)
    /\ (trace # <<>>) =>
          trace[1].op = "goto" /\ trace[1].url = start_urls[url_idx]
C19_Step ==
    /\ config' = config
    /\ (pc = "dispatch") => pc' = EntryOf(ExpectedStrategy)
    /\ (pc' = "dispatch") => pc \in {"for_url", "dispatch"}
    /\ (StrategyAt(pc') # "none" /\ StrategyAt(pc) # StrategyAt(pc'))
          => pc = "dispatch"
    /\ (StrategyAt(pc) # "none" /\ StrategyAt(pc') = "none")
          => pc' \in {"accumulate", "raised"}
    /\ (pc = "accumulate") => pc' \in {"accumulate", "for_url"}

\* C19: for each start URL, after navigating to it, main runs exactly one
\* strategy: infinite scroll when mode is infinite_scroll or not configured,
\* URL-templated pagination when mode is pagination and url_template is
\* non-empty, click-based pagination when mode is pagination and there is
\* no url_template; the same strategy runs for every start URL of a run.
C19_Dispatch == []C19_Running /\ [][C19_Step]_vars
\* The second start URL is in the URL-templated strategy, as the first was.
C19_Witness ==
    /\ url_idx = 2
    /\ Len(returned) = 1
    /\ pc = "paginate_by_url_loop"
    /\ ExpectedStrategy = "by_url"
    /\ CountOp(trace, "extract") >= 1

(***************************************************************************)
(* C20.                                                                    *)
(***************************************************************************)
ByUrlRun == ExpectedStrategy = "by_url"
\* The URL of templated page k, and the templated pages of a traversal.
TemplatedUrl(k) == <<"list?p=">> \o DecStr(k)
FirstPage ==
    IF "start_page" \in DOMAIN config.pagination
    THEN config.pagination.start_page ELSE 1
TemplatedPages ==
    [i \in 1..config.pagination.max_pages |-> TemplatedUrl(FirstPage + i - 1)]
\* Every navigation of a run that completes: each start URL, then the
\* templated pages.
AllNavigations ==
    Concat([i \in 1..Len(start_urls) |-> <<start_urls[i]>> \o TemplatedPages])
\* The URLs navigated to for the start URL being processed, in order.
Visited ==
    LET IsGoto(e) == e.op = "goto"
        g == SelectSeq(trace, IsGoto)
    IN  [i \in 1..Len(g) |-> g[i].url]
Occurrences(s, x) == Cardinality({i \in 1..Len(s) : s[i] = x})

C20_NotOnStartUrl ==
    ByUrlRun =>
        /\ \A i \in 1..Len(trace) :
              (trace[i].op = "extract") =>
                  /\ trace[i].page.url \in
                         {TemplatedPages[k] : k \in 1..Len(TemplatedPages)}
                  /\ \A u \in 1..Len(start_urls) :
                        trace[i].page.url # start_urls[u]
                  /\ trace[i - 1] = GotoEv(trace[i].page.url, TRUE)
        /\ (Len(trace) >= 2) =>
              /\ trace[2].op = "goto"
              /\ trace[2].url = TemplatedPages[1]
C20_SamePages ==
    ByUrlRun =>
        /\ IsPrefix(navs, AllNavigations)
        /\ Len(returned) = url_idx - 1
        /\ \A i \in 1..Len(Extracted) :
              Extracted[i] = [url |-> TemplatedPages[i], clicks |-> 0]
        /\ (pc = "accumulate") =>
              /\ Visited = <<start_urls[url_idx]>> \o TemplatedPages
              /\ Len(Extracted) = Len(TemplatedPages)
              /\ IsPagewise(records, Extracted)
C20_Counts ==
    (ByUrlRun /\ pc = "done") =>
        /\ navs = AllNavigations
        /\ Len(returned) = Len(start_urls)
        /\ \A k \in 1..Len(TemplatedPages) :
              Occurrences(navs, TemplatedPages[k]) = Len(start_urls)

\* C20: in pagination mode with a url_template, main navigates to each
\* start URL and then at once away to the templated pages, so that no
\* extraction happens on a start URL's own page; the URLs extracted are the
\* same (pages start_page .. start_page + max_pages - 1) for every start
\* URL; with n start URLs a run navigates to and extracts each templated
\* page exactly n times.
C20_StartUrlUnused == C20_NotOnStartUrl /\ C20_SamePages /\ C20_Counts
\* A run over two start URLs and two templated pages has completed, with
\* records.
C20_Witness ==
    /\ ByUrlRun
    /\ pc = "done"
    /\ Len(start_urls) = 2
    /\ Len(TemplatedPages) = 2
    /\ Len(navs) = 6
    /\ Len(sink[1]) = 8
====
